---- MODULE Spec2Model ----
(***************************************************************************)
(* remix-zod (src/src/index.ts): the parse entry points, the action and    *)
(* loader binders, the cookie wrapper and the multi-value folds, as a      *)
(* state machine.  One request-level call is in flight at a time; the two  *)
(* module-level settings (badRequestMessage, customBadRequestJson) can be  *)
(* reassigned between any two steps.                                       *)
(***************************************************************************)
EXTENDS Integers, Sequences, FiniteSets, TLC

VARIABLES
    badRequestMessage,      \* index.ts:176  export let badRequestMessage
    customBadRequestJson,   \* index.ts:177  export let customBadRequestJson
    call,                   \* the entry point being (or last) run, with its arguments
    pc,                     \* position inside a zodAction / zodLoader invocation
    parsedParams,           \* value of `await parseParams(...)` inside a binder
    parsedInput,            \* value of `await parseBody(...)` / `await parseQuery(...)`
    handlerArgs,            \* the argument object the wrapped handler was called with
    handlerCalls,           \* number of times the wrapped handler was called
    given,                  \* the values handed to a schema, in order
    reads,                  \* number of times the request body was read
    outcome,                \* how the call settled: a returned value or a thrown one
    codecCalls,             \* calls of the cookie codec's own parse and serialize
    entries,                \* entries of the cookie wrapper's methods during the call
    foldKind,               \* FoldSpec: which of the three folds is iterating
    pairs,                  \* FoldSpec: the (key, value) pairs visited so far
    data                    \* FoldSpec: the `data` object of the fold

vars == <<badRequestMessage, customBadRequestJson, call, pc, parsedParams,
          parsedInput, handlerArgs, handlerCalls, given, reads, outcome,
          codecCalls, entries, foldKind, pairs, data>>

callVars == <<call, pc, parsedParams, parsedInput, handlerArgs, handlerCalls,
              given, reads, outcome, codecCalls, entries>>

foldVars == <<foldKind, pairs, data>>

(***************************************************************************)
(* Bounds.                                                                 *)
(***************************************************************************)
\* longest pair sequence a fold is run on in FoldSpec
MaxPairs == 4
\* depth at which the JavaScript call stack is exhausted
StackLimit == 2
\* entries of the cookie wrapper's serialize after which a run is no longer followed
MaxEntries == 3

(***************************************************************************)
(* JavaScript values.  A scalar is a tagged string; an object is its table *)
(* of own properties over Keys, each absent, a scalar or an array.         *)
(***************************************************************************)
Keys == {"a", "b", "constructor"}

\* property names every object literal inherits from Object.prototype
ObjectPrototypeKeys == {"constructor"}

FieldValues == {"1", "x"}

Scalar(t, s) == [t |-> t, s |-> s]

NoScalar == Scalar("none", "")

Str(s) == Scalar("string", s)

Absent == [arr |-> FALSE, vals |-> <<>>]

One(sc) == [arr |-> FALSE, vals |-> <<sc>>]

Many(scs) == [arr |-> TRUE, vals |-> scs]

EmptyObject == [k \in Keys |-> Absent]

Obj1(k, sc) == [EmptyObject EXCEPT ![k] = One(sc)]

Obj2(k1, sc1, k2, sc2) == [Obj1(k1, sc1) EXCEPT ![k2] = One(sc2)]

Pair(k, v) == [key |-> k, value |-> v]

VScalar(sc) == [t |-> "scalar", s |-> sc, o |-> EmptyObject, p |-> <<>>, f |-> <<>>]

VObject(o) == [t |-> "object", s |-> NoScalar, o |-> o, p |-> <<>>, f |-> <<>>]

VSearchParams(ps) ==
    [t |-> "URLSearchParams", s |-> NoScalar, o |-> EmptyObject, p |-> ps, f |-> <<>>]

VPromise(state, reason) ==
    [t |-> "promise", s |-> Scalar(state, reason), o |-> EmptyObject, p |-> <<>>, f |-> <<>>]

Undefined == [t |-> "undefined", s |-> NoScalar, o |-> EmptyObject, p |-> <<>>, f |-> <<>>]

(***************************************************************************)
(* Files and byte counts.  A byte count is kept as hi * 2^20 + lo with     *)
(* 0 <= lo < 2^20, so that a terabyte is representable; the code's numbers *)
(* are doubles, exact far beyond the counts used here.                     *)
(***************************************************************************)
Radix == 1024 * 1024

Num(hi, lo) == [hi |-> hi, lo |-> lo]

\* n as a byte count, for 0 <= n < 2^31
NumOf(n) == Num(n \div Radix, n % Radix)

\* a * 1024
Times1024(a) == Num(a.hi * 1024 + (a.lo * 1024) \div Radix, (a.lo * 1024) % Radix)

\* a < b
Less(a, b) == a.hi < b.hi \/ (a.hi = b.hi /\ a.lo < b.lo)

\* an element of an array or a form: a File with its type and size, or something else
FileOf(type, size) == [isFile |-> TRUE, type |-> type, size |-> size]

NotAFile == [isFile |-> FALSE, type |-> "", size |-> Num(0, 0)]

VFile(file) == [t |-> "file", s |-> NoScalar, o |-> EmptyObject, p |-> <<>>, f |-> <<file>>]

VArray(elements) ==
    [t |-> "array", s |-> NoScalar, o |-> EmptyObject, p |-> <<>>, f |-> elements]

\* the element a value is when it stands in an array
ElementOf(v) == IF v.t = "file" THEN v.f[1] ELSE NotAFile

\* `data[key]` on an object created by `{}`: own property first, then Object.prototype
Lookup(obj, key) ==
    IF obj[key] # Absent THEN obj[key]
    ELSE IF key \in ObjectPrototypeKeys THEN One(Scalar("function", key))
    ELSE Absent

(***************************************************************************)
(* The folds (formToObject, searchParamsToObject, headersToObject).        *)
(***************************************************************************)
\* the callback of form.forEach
FormCallback(d, value, key) ==
    IF Lookup(d, key) # Absent
    THEN LET wrapped == IF ~Lookup(d, key).arr
                        THEN [d EXCEPT ![key] = Many(Lookup(d, key).vals)]
                        ELSE d
         IN  [wrapped EXCEPT ![key] = Many(Append(Lookup(wrapped, key).vals, Str(value)))]
    ELSE [d EXCEPT ![key] = One(Str(value))]

\* the callback of search.forEach
SearchCallback(d, value, key) ==
    IF Lookup(d, key) # Absent
    THEN LET wrapped == IF ~Lookup(d, key).arr
                        THEN [d EXCEPT ![key] = Many(Lookup(d, key).vals)]
                        ELSE d
         IN  [wrapped EXCEPT ![key] = Many(Append(Lookup(wrapped, key).vals, Str(value)))]
    ELSE [d EXCEPT ![key] = One(Str(value))]

\* the callback of headers.forEach
HeadersCallback(d, value, key) ==
    IF Lookup(d, key) # Absent
    THEN LET wrapped == IF ~Lookup(d, key).arr
                        THEN [d EXCEPT ![key] = Many(Lookup(d, key).vals)]
                        ELSE d
         IN  [wrapped EXCEPT ![key] = Many(Append(Lookup(wrapped, key).vals, Str(value)))]
    ELSE [d EXCEPT ![key] = One(Str(value))]

RECURSIVE FormForEach(_, _)
FormForEach(ps, d) ==
    IF ps = <<>> THEN d
    ELSE FormForEach(Tail(ps), FormCallback(d, Head(ps).value, Head(ps).key))

RECURSIVE SearchForEach(_, _)
SearchForEach(ps, d) ==
    IF ps = <<>> THEN d
    ELSE SearchForEach(Tail(ps), SearchCallback(d, Head(ps).value, Head(ps).key))

RECURSIVE HeadersForEach(_, _)
HeadersForEach(ps, d) ==
    IF ps = <<>> THEN d
    ELSE HeadersForEach(Tail(ps), HeadersCallback(d, Head(ps).value, Head(ps).key))

formToObject(form) == FormForEach(form, EmptyObject)

searchParamsToObject(search) == SearchForEach(search, EmptyObject)

headersToObject(headers) == HeadersForEach(headers, EmptyObject)

(***************************************************************************)
(* Schemas.  A schema maps a value to valid(output), invalid (a ZodError)  *)
(* or throws (an exception raised inside a refinement).                    *)
(***************************************************************************)
Schemas == {"unknown", "stringNumber", "stringBoolean", "objectA"}

Valid(v) == [kind |-> "valid", value |-> v, error |-> "none"]

Invalid == [kind |-> "invalid", value |-> Undefined, error |-> "ZodError"]

\* Number(val) is NaN
IsNaNNumber(s) == s \notin {"0", "1", "2", ""}

\* zx.stringNumber
StringNumber(v) ==
    IF v.t = "scalar" /\ v.s.t = "string" /\ ~IsNaNNumber(v.s.s)
    THEN Valid(VScalar(Scalar("number", v.s.s)))
    ELSE Invalid

\* zx.stringBoolean
StringBoolean(v) ==
    IF v.t = "scalar" /\ v.s.t = "string" /\ (v.s.s = "true" \/ v.s.s = "false")
    THEN Valid(VScalar(Scalar("boolean", v.s.s)))
    ELSE Invalid

\* zx.object({a: zx.stringNumber}): reads the shape's key, drops every other key
ObjectA(v) ==
    IF v.t \notin {"object", "URLSearchParams"} THEN Invalid
    ELSE LET field == Lookup(v.o, "a")
             inner == IF field # Absent /\ ~field.arr
                      THEN StringNumber(VScalar(field.vals[1]))
                      ELSE Invalid
         IN  IF inner.kind = "valid"
             THEN Valid(VObject(Obj1("a", inner.value.s)))
             ELSE Invalid

\* an exception raised inside a refinement or a preprocess function
Throws(err) == [kind |-> "throws", value |-> Undefined, error |-> err]

(***************************************************************************)
(* The file schemas: zx.file, zx.files, zx.base64File.                     *)
(***************************************************************************)
NoSize == [given |-> FALSE, value |-> 0, unit |-> "B"]

Size(value, unit) == [given |-> TRUE, value |-> value, unit |-> unit]

NoMime == [given |-> FALSE, isArray |-> FALSE, types |-> {}]

Mime(type) == [given |-> TRUE, isArray |-> FALSE, types |-> {type}]

MimeList(types) == [given |-> TRUE, isArray |-> TRUE, types |-> types]

NoCount == [given |-> FALSE, value |-> 0]

Count(n) == [given |-> TRUE, value |-> n]

\* the options object of zx.file / zx.files / zx.base64File
Options(min, max, mime) ==
    [minimumSize |-> min, maximumSize |-> max, mimetype |-> mime,
     minimumFiles |-> NoCount, maximumFiles |-> NoCount]

ConvertToBytesDecimal(fileSize) ==
    IF fileSize.unit \in {"B", "KB", "MB", "GB", "TB"}
    THEN [kind |-> "ok",
          bytes |-> NumOf(fileSize.value * (IF fileSize.unit = "B" THEN 1 ELSE 1000))]
    ELSE [kind |-> "throws", bytes |-> Num(0, 0)]

convertToBytes(fileSize) ==
    LET value == NumOf(fileSize.value)
        unit == fileSize.unit
    IN  CASE unit = "B" -> [kind |-> "ok", bytes |-> value]
          [] unit = "KB" -> [kind |-> "ok", bytes |-> Times1024(value)]
          [] unit = "MB" -> [kind |-> "ok", bytes |-> Times1024(Times1024(value))]
          [] unit = "GB" ->
                [kind |-> "ok", bytes |-> Times1024(Times1024(Times1024(value)))]
          [] unit = "TB" ->
                [kind |-> "ok",
                 bytes |-> Times1024(Times1024(Times1024(Times1024(value))))]
          [] OTHER -> [kind |-> "throws", bytes |-> Num(0, 0)]

\* if (mimetype): an empty string counts as not given, an empty array as given
MimeTruthy(mimetype) == mimetype.given /\ (mimetype.isArray \/ mimetype.types # {""})

\* the function given to zod.custom by zx.file: "true", "false", or "throws"
FileCheck(options, val) ==
    IF ~val.isFile THEN "false"
    ELSE IF MimeTruthy(options.mimetype) /\ val.type \notin options.mimetype.types
    THEN "false"
    ELSE IF options.minimumSize.given
            /\ convertToBytes(options.minimumSize).kind = "throws"
    THEN "throws"
    ELSE IF options.minimumSize.given
            /\ Less(val.size, convertToBytes(options.minimumSize).bytes)
    THEN "false"
    ELSE IF options.maximumSize.given
            /\ convertToBytes(options.maximumSize).kind = "throws"
    THEN "throws"
    ELSE IF options.maximumSize.given
            /\ Less(convertToBytes(options.maximumSize).bytes, val.size)
    THEN "false"
    ELSE "true"

\* zx.file(options) run on v
ZxFile(options, v) ==
    LET checked == FileCheck(options, ElementOf(v))
    IN  IF checked = "throws" THEN Throws("Error")
        ELSE IF checked = "true" THEN Valid(v)
        ELSE Invalid

\* zx.files(options) run on v: zod.array(zx.file({minimumSize, maximumSize, mimetype}))
ZxFiles(options, v) ==
    IF v.t # "array" THEN Invalid
    ELSE IF \E i \in 1..Len(v.f) : FileCheck(options, v.f[i]) = "throws"
    THEN Throws("Error")
    ELSE IF \A i \in 1..Len(v.f) : FileCheck(options, v.f[i]) = "true"
    THEN Valid(v)
    ELSE Invalid

(***************************************************************************)
(* zx.base64File.  The strings it is run on, with what split and atob give *)
(* for each of them.                                                       *)
(***************************************************************************)
DataUri == "data:image/png;base64,aGVsbG8="

PlainBase64 == "aGVsbG8="

BadPayloadUri == "data:image/png;base64,not base64!!"

NoHeaderUri == "image/png,aGVsbG8="

\* val.split(',')
SplitComma(str) ==
    CASE str = DataUri -> <<"data:image/png;base64", "aGVsbG8=">>
      [] str = BadPayloadUri -> <<"data:image/png;base64", "not base64!!">>
      [] str = NoHeaderUri -> <<"image/png", "aGVsbG8=">>
      [] OTHER -> <<str>>

\* parts[i], which is undefined past the end and "undefined" once atob has made it a string
Part(parts, i) == IF i <= Len(parts) THEN parts[i] ELSE "undefined"

\* atob(str): the length of the decoded byte string, or an InvalidCharacterError
Atob(str) ==
    IF str = "aGVsbG8=" THEN [kind |-> "ok", length |-> 5]
    ELSE [kind |-> "throws", length |-> 0]

\* head.split(':')[1].split(';')[0]: a TypeError when head has no colon
MimeString(head) ==
    IF head = "data:image/png;base64" THEN [kind |-> "ok", mime |-> "image/png"]
    ELSE [kind |-> "throws", mime |-> ""]

\* the function given to zod.preprocess by zx.base64File
Preprocess(val) ==
    IF val.t = "file" THEN Valid(val)
    ELSE IF ~(val.t = "scalar" /\ val.s.t = "string") THEN Throws("Error")
    ELSE LET parts == SplitComma(val.s.s)
             byteString == Atob(Part(parts, 2))
             mimeString == MimeString(Part(parts, 1))
         IN  IF byteString.kind = "throws" THEN Throws("InvalidCharacterError")
             ELSE IF mimeString.kind = "throws" THEN Throws("TypeError")
             ELSE Valid(VFile(FileOf(mimeString.mime, NumOf(byteString.length))))

\* zx.base64File(options) run on v: zod.preprocess(fn, zx.file(options))
ZxBase64File(options, v) ==
    LET processed == Preprocess(v)
    IN  IF processed.kind = "valid" THEN ZxFile(options, processed.value)
        ELSE processed

(***************************************************************************)
(* The file schemas the model validates with.  A schema is known by a name *)
(* that stands for the options it was built from.                          *)
(***************************************************************************)
\* zx.file(...) schemas
FileSchemaNames ==
    {"file.any", "file.max1MB", "file.min1KB", "file.min1KBmax1MB", "file.max1GB", "file.max1TB", "file.max1024B",
     "file.png", "file.pngOrJpeg", "file.emptyList", "file.pngMax1MB", "file.minBadUnit", "file.maxBadUnit",
     "file.pngMaxBadUnit"}

FileOptionsNamed(name) ==
    CASE name = "file.any" -> Options(NoSize, NoSize, NoMime)
      [] name = "file.max1MB" -> Options(NoSize, Size(1, "MB"), NoMime)
      [] name = "file.min1KB" -> Options(Size(1, "KB"), NoSize, NoMime)
      [] name = "file.min1KBmax1MB" -> Options(Size(1, "KB"), Size(1, "MB"), NoMime)
      [] name = "file.max1GB" -> Options(NoSize, Size(1, "GB"), NoMime)
      [] name = "file.max1TB" -> Options(NoSize, Size(1, "TB"), NoMime)
      [] name = "file.max1024B" -> Options(NoSize, Size(1024, "B"), NoMime)
      [] name = "file.png" -> Options(NoSize, NoSize, Mime("image/png"))
      [] name = "file.pngOrJpeg" ->
            Options(NoSize, NoSize, MimeList({"image/png", "image/jpeg"}))
      [] name = "file.emptyList" -> Options(NoSize, NoSize, MimeList({}))
      [] name = "file.pngMax1MB" -> Options(NoSize, Size(1, "MB"), Mime("image/png"))
      [] name = "file.minBadUnit" -> Options(Size(1, "kb"), NoSize, NoMime)
      [] name = "file.maxBadUnit" -> Options(NoSize, Size(1, "kb"), NoMime)
      [] name = "file.pngMaxBadUnit" -> Options(NoSize, Size(1, "MiB"), Mime("image/png"))

\* zx.files(...) schemas
FilesSchemaNames ==
    {"files.any", "files.png", "files.min1", "files.max1", "files.min1max2",
     "files.maxBadUnit"}

FilesOptionsNamed(name) ==
    CASE name = "files.any" -> Options(NoSize, NoSize, NoMime)
      [] name = "files.png" -> Options(NoSize, NoSize, Mime("image/png"))
      [] name = "files.min1" ->
            [Options(NoSize, NoSize, NoMime) EXCEPT !.minimumFiles = Count(1)]
      [] name = "files.max1" ->
            [Options(NoSize, NoSize, NoMime) EXCEPT !.maximumFiles = Count(1)]
      [] name = "files.min1max2" ->
            [Options(NoSize, NoSize, NoMime) EXCEPT !.minimumFiles = Count(1),
                                                    !.maximumFiles = Count(2)]
      [] name = "files.maxBadUnit" -> Options(NoSize, Size(1, "kb"), NoMime)

\* zx.base64File(...) schemas
Base64FileSchemaNames ==
    {"base64File.any", "base64File.png", "base64File.jpeg", "base64File.min1KB"}

Base64FileOptionsNamed(name) ==
    CASE name = "base64File.any" -> Options(NoSize, NoSize, NoMime)
      [] name = "base64File.png" -> Options(NoSize, NoSize, Mime("image/png"))
      [] name = "base64File.jpeg" -> Options(NoSize, NoSize, Mime("image/jpeg"))
      [] name = "base64File.min1KB" -> Options(Size(1, "KB"), NoSize, NoMime)

\* schema.parseAsync / schema.safeParseAsync, before the result is shaped
Validate(schema, v) ==
    CASE schema = "unknown" -> Valid(v)
      [] schema = "stringNumber" -> StringNumber(v)
      [] schema = "stringBoolean" -> StringBoolean(v)
      [] schema = "objectA" -> ObjectA(v)

\* the same for a schema built by zx.file, zx.files or zx.base64File
ValidateZx(schema, v) ==
    CASE schema \in FileSchemaNames -> ZxFile(FileOptionsNamed(schema), v)
      [] schema \in FilesSchemaNames -> ZxFiles(FilesOptionsNamed(schema), v)
      [] schema \in Base64FileSchemaNames ->
            ZxBase64File(Base64FileOptionsNamed(schema), v)

(***************************************************************************)
(* How a call settles.                                                     *)
(***************************************************************************)
NoResponse == [status |-> 0, statusText |-> "", body |-> [object |-> FALSE, message |-> ""]]

NoOutcome ==
    [kind |-> "none", shape |-> "none", success |-> FALSE, data |-> Undefined,
     error |-> "none", response |-> NoResponse]

\* the promise fulfils with the plain value v
Return(v) ==
    [kind |-> "return", shape |-> "value", success |-> TRUE, data |-> v,
     error |-> "none", response |-> NoResponse]

\* the promise fulfils with zod's tagged result {success, data | error}
SafeResult(r) ==
    [kind |-> "return", shape |-> "result", success |-> r.kind = "valid",
     data |-> r.value, error |-> r.error, response |-> NoResponse]

\* the promise rejects with an error object of class err
Throw(err) ==
    [kind |-> "throw", shape |-> "error", success |-> FALSE, data |-> Undefined,
     error |-> err, response |-> NoResponse]

\* the promise rejects with a Response
ThrowResponse(resp) ==
    [kind |-> "throw", shape |-> "response", success |-> FALSE, data |-> Undefined,
     error |-> "Response", response |-> resp]

\* what a call yields: its outcome, the values it handed to a schema, its body reads,
\* the calls of the cookie codec's own parse and the entries of the wrapper's methods
Ran(out, handed, n) ==
    [out |-> out, given |-> handed, reads |-> n, decodes |-> 0, entries |-> 0]

\* an async function that returns a promise settles as that promise does
Resolve(out) ==
    IF out.kind = "return" /\ out.shape = "value" /\ out.data.t = "promise"
       /\ out.data.s.t = "rejected"
    THEN Throw(out.data.s.s)
    ELSE out

(***************************************************************************)
(* The bad-request condition.                                              *)
(***************************************************************************)
DefaultMessage == "Bad Request"

Messages == {DefaultMessage, "Invalid input"}

\* "identity" is the initial (message) => message; "errorObject" is the README's
\* (message) => ({error: true, message})
Formatters == {"identity", "errorObject"}

ApplyFormatter(f, message) ==
    IF f = "identity" THEN [object |-> FALSE, message |-> message]
    ELSE [object |-> TRUE, message |-> message]

\* json(data, init): a Response whose body is the JSON encoding of data
Json(payload, init) ==
    [status |-> init.status, statusText |-> init.statusText, body |-> payload]

ThrowBadRequestAlwaysDefault ==
    ThrowResponse(Json(ApplyFormatter("identity", DefaultMessage),
                       [status |-> 400, statusText |-> DefaultMessage]))

throwBadRequest ==
    ThrowResponse(Json(ApplyFormatter(customBadRequestJson, badRequestMessage),
                       [status |-> 400, statusText |-> badRequestMessage]))

(***************************************************************************)
(* Requests.  The content-type header is a sequence of tokens; a literal   *)
(* is contained in the header iff it is one of its tokens.  In the last    *)
(* header of ContentTypes the boundary parameter ends in the token         *)
(* "application/json".                                                     *)
(***************************************************************************)
NoHeader == [present |-> FALSE, tokens |-> <<>>]

Header(tokens) == [present |-> TRUE, tokens |-> tokens]

\* contentType?.includes(literal)
Includes(header, literal) ==
    header.present /\ \E i \in 1..Len(header.tokens) : header.tokens[i] = literal

ContentTypes ==
    { NoHeader,
      Header(<<"application/json">>),
      Header(<<"application/json", "; charset=utf-8">>),
      Header(<<"multipart/form-data", "; boundary=xyz">>),
      Header(<<"application/x-www-form-urlencoded">>),
      Header(<<"text/plain">>),
      Header(<<"Application/JSON">>),
      Header(<<"multipart/form-data", "; boundary=", "application/json">>) }

GetBodyEncodingFormFirst(request) ==
    IF Includes(request.contentType, "multipart/form-data") THEN "form"
    ELSE IF Includes(request.contentType, "application/json") THEN "json"
    ELSE "text"

getBodyEncoding(request) ==
    IF Includes(request.contentType, "application/json") THEN "json"
    ELSE IF Includes(request.contentType, "multipart/form-data") THEN "form"
    ELSE "text"

\* wire: what the body bytes are ("json", "form", "garbage" or "empty")
Request(ct, wire, jsonValue, form, query, cookie) ==
    [contentType |-> ct, wire |-> wire, json |-> jsonValue, form |-> form,
     query |-> query, cookie |-> cookie]

NoCookie == [present |-> FALSE, text |-> ""]

NoRequest == Request(NoHeader, "empty", Undefined, <<>>, <<>>, NoCookie)

\* request.json(): the parsed body, or a SyntaxError when the bytes are not JSON
RequestJson(request) ==
    IF request.wire = "json" THEN Valid(request.json)
    ELSE [kind |-> "throws", value |-> Undefined, error |-> "SyntaxError"]

\* request.formData(): the fields, or a TypeError when the body is not form data
RequestFormData(request) ==
    IF request.wire = "form"
       /\ (Includes(request.contentType, "multipart/form-data")
           \/ Includes(request.contentType, "application/x-www-form-urlencoded"))
    THEN [kind |-> "valid", form |-> request.form, error |-> "none"]
    ELSE [kind |-> "throws", form |-> <<>>, error |-> "TypeError"]

(***************************************************************************)
(* The three outcome shapes.                                               *)
(***************************************************************************)
\* try { return await schema.parseAsync(value) } catch { throwBadRequest() },
\* r being what the schema made of value
ParseOrThrowOf(r, value) ==
    LET settled == IF r.kind = "valid" THEN Resolve(Return(r.value)) ELSE Throw(r.error)
    IN  Ran(IF settled.kind = "throw" THEN throwBadRequest ELSE settled, <<value>>, 0)

\* schema.safeParseAsync(value), r being what the schema made of value
SafeParseAsyncOf(r, value) ==
    Ran(IF r.kind = "throws" THEN Throw(r.error) ELSE SafeResult(r), <<value>>, 0)

ParseOrThrowRethrows(schema, value) ==
    LET r == Validate(schema, value)
    IN  Ran(IF r.kind = "valid" THEN Resolve(Return(r.value)) ELSE Throw(r.error),
            <<value>>, 0)

parseOrThrow(schema, value) == ParseOrThrowOf(Validate(schema, value), value)

\* schema.parseAsync(value)
parseAsync(schema, value) ==
    LET r == Validate(schema, value)
    IN  Ran(IF r.kind = "valid" THEN Resolve(Return(r.value)) ELSE Throw(r.error),
            <<value>>, 0)

SafeParseAsyncThrows(schema, value) ==
    LET r == Validate(schema, value)
    IN  Ran(IF r.kind = "valid" THEN SafeResult(r) ELSE Throw(r.error), <<value>>, 0)

\* schema.safeParseAsync(value)
safeParseAsync(schema, value) == SafeParseAsyncOf(Validate(schema, value), value)

\* .then(result => result.success ? result.data : defaultValue)
ThenDataOrDefault(ran, defaultValue) ==
    IF ran.out.kind = "throw" THEN ran
    ELSE [ran EXCEPT !.out = Resolve(Return(IF ran.out.success THEN ran.out.data
                                               ELSE defaultValue))]

\* a body read came first: one more read, and a failed read settles the call
AfterRead(read, ran) ==
    IF read.kind = "throws" THEN Ran(Throw(read.error), <<>>, 1)
    ELSE [ran EXCEPT !.reads = ran.reads + 1]

(***************************************************************************)
(* The parse entry points.                                                 *)
(***************************************************************************)
parseJson(request, schema) ==
    LET body == RequestJson(request)
    IN  AfterRead(body, parseOrThrow(schema, body.value))

parseJsonSafe(request, schema) ==
    LET body == RequestJson(request)
    IN  AfterRead(body, safeParseAsync(schema, body.value))

parseJsonWithDefault(request, schema, defaultValue) ==
    LET body == RequestJson(request)
    IN  AfterRead(body, ThenDataOrDefault(safeParseAsync(schema, body.value), defaultValue))

parseForm(request, schema) ==
    LET body == RequestFormData(request)
    IN  AfterRead(body, parseOrThrow(schema, VObject(formToObject(body.form))))

parseFormSafe(request, schema) ==
    LET body == RequestFormData(request)
    IN  AfterRead(body, safeParseAsync(schema, VObject(formToObject(body.form))))

parseFormWithDefault(request, schema, defaultValue) ==
    LET body == RequestFormData(request)
    IN  AfterRead(body, ThenDataOrDefault(
                            safeParseAsync(schema, VObject(formToObject(body.form))),
                            defaultValue))

ParseBodyAcceptsText(request, schema) ==
    LET encoding == getBodyEncoding(request)
    IN  IF encoding = "json" THEN parseJson(request, schema)
        ELSE IF encoding = "form" THEN parseForm(request, schema)
        ELSE parseOrThrow(schema, Undefined)

parseBody(request, schema) ==
    LET encoding == getBodyEncoding(request)
    IN  IF encoding = "json" THEN parseJson(request, schema)
        ELSE IF encoding = "form" THEN parseForm(request, schema)
        ELSE Ran(throwBadRequest, <<>>, 0)

parseBodySafe(request, schema) ==
    LET encoding == getBodyEncoding(request)
    IN  IF encoding = "json" THEN parseJsonSafe(request, schema)
        ELSE IF encoding = "form" THEN parseFormSafe(request, schema)
        ELSE Ran(throwBadRequest, <<>>, 0)

parseBodyWithDefault(request, schema, defaultValue) ==
    LET encoding == getBodyEncoding(request)
    IN  IF encoding = "json" THEN parseJsonWithDefault(request, schema, defaultValue)
        ELSE IF encoding = "form" THEN parseFormWithDefault(request, schema, defaultValue)
        ELSE Ran(throwBadRequest, <<>>, 0)

ParseParamsUnchecked(params, schema) == Ran(Return(params), <<params>>, 0)

parseParams(params, schema) == parseOrThrow(schema, params)

parseParamsSafe(params, schema) == safeParseAsync(schema, params)

parseParamsWithDefault(params, schema, defaultValue) ==
    ThenDataOrDefault(safeParseAsync(schema, params), defaultValue)

\* isSearchParams: the first argument is a URLSearchParams (of request's URL), not the Request
parseQuery(request, isSearchParams, schema) ==
    IF isSearchParams THEN parseOrThrow(schema, VSearchParams(request.query))
    ELSE parseOrThrow(schema, VObject(searchParamsToObject(request.query)))

parseQuerySafe(request, isSearchParams, schema) ==
    IF isSearchParams THEN safeParseAsync(schema, VSearchParams(request.query))
    ELSE safeParseAsync(schema, VObject(searchParamsToObject(request.query)))

parseQueryWithDefault(request, isSearchParams, schema, defaultValue) ==
    IF isSearchParams
    THEN ThenDataOrDefault(safeParseAsync(schema, VSearchParams(request.query)), defaultValue)
    ELSE ThenDataOrDefault(
             safeParseAsync(schema, VObject(searchParamsToObject(request.query))),
             defaultValue)

parseHeaders(headers, schema) == parseOrThrow(schema, VObject(headersToObject(headers)))

parseHeadersSafe(headers, schema) == safeParseAsync(schema, VObject(headersToObject(headers)))

parseHeadersWithDefault(headers, schema, defaultValue) ==
    ThenDataOrDefault(safeParseAsync(schema, VObject(headersToObject(headers))), defaultValue)

(***************************************************************************)
(* createZodCookie.  Object.assign(cookie, {...}) writes the new methods   *)
(* onto the codec object itself, so `cookie.parse` inside them names the   *)
(* method that Object.assign put there.                                    *)
(***************************************************************************)
\* which function `cookie.parse` / `cookie.serialize` is once createZodCookie returned
CookieMethods == [parse |-> "zod", serialize |-> "zod"]

\* the codec's own parse: the decoded value of a cookie header
CodecParse(header) ==
    IF header.text = "a=1" THEN VObject(Obj1("a", Str("1")))
    ELSE IF header.text = "a=x" THEN VObject(Obj1("a", Str("x")))
    ELSE VObject(EmptyObject)

\* the codec's own serialize: the Set-Cookie string that encodes v
CodecSerialize(v) ==
    [v EXCEPT !.t = IF v.t = "scalar" THEN "encodedScalar" ELSE "encodedObject"]

FalsyNullOnly(header) == ~header.present

\* !headers
Falsy(header) == ~header.present \/ header.text = ""

\* the promise an async function call evaluates to
PromiseOf(out) ==
    IF out.kind = "throw" THEN VPromise("rejected", out.error)
    ELSE VPromise("fulfilled", "")

\* a nested evaluation came first: its schema runs and codec calls precede ran's
WithEarlier(inner, ran) ==
    [ran EXCEPT !.given = inner.given \o ran.given,
                !.decodes = inner.decodes + ran.decodes,
                !.entries = inner.entries + ran.entries]

\* cookieHeader.headers.get('cookie'), cookieHeader.get('cookie'), or the string itself
CookieHeader(arg) == arg.header

\* the argument of a cookie method: rep is "string" (a string or null), "Request" or "Headers"
CookieArg(rep, header) == [rep |-> rep, header |-> header]

RECURSIVE CookieParse(_, _, _)
RECURSIVE CookieDotParse(_, _, _)

\* the expression cookie.parse(headers): its value, and what evaluating it ran
CookieDotParse(headers, schema, depth) ==
    IF CookieMethods.parse = "zod"
    THEN LET inner == CookieParse(CookieArg("string", headers), schema, depth)
         IN  [value |-> PromiseOf(inner.out), given |-> inner.given,
              decodes |-> inner.decodes, entries |-> inner.entries]
    ELSE [value |-> CodecParse(headers), given |-> <<>>, decodes |-> 1, entries |-> 0]

\* one entry of a wrapper method
Entered(ran) == [ran EXCEPT !.entries = ran.entries + 1]

\* the method parse of the returned object, entered with `depth` stack frames left
CookieParse(cookieHeader, schema, depth) ==
    IF depth = 0 THEN Ran(Throw("RangeError"), <<>>, 0)
    ELSE Entered(
      IF cookieHeader.rep = "Request"
      THEN LET headers == CookieHeader(cookieHeader)
           IN  IF Falsy(headers) THEN parseAsync(schema, VObject(EmptyObject))
               ELSE LET inner == CookieDotParse(headers, schema, depth - 1)
                    IN  WithEarlier(inner, parseAsync(schema, inner.value))
      ELSE IF cookieHeader.rep = "Headers"
      THEN LET headers == CookieHeader(cookieHeader)
           IN  IF Falsy(headers) THEN parseAsync(schema, VObject(EmptyObject))
               ELSE LET inner == CookieDotParse(headers, schema, depth - 1)
                    IN  WithEarlier(inner, parseAsync(schema, inner.value))
      ELSE IF Falsy(cookieHeader.header) THEN parseAsync(schema, VObject(EmptyObject))
      ELSE LET inner == CookieDotParse(cookieHeader.header, schema, depth - 1)
           IN  WithEarlier(inner, parseAsync(schema, inner.value)))

CookieParseSafe(cookieHeader, schema, depth) ==
    Entered(
      IF cookieHeader.rep = "Request"
      THEN LET headers == CookieHeader(cookieHeader)
           IN  IF Falsy(headers) THEN safeParseAsync(schema, VObject(EmptyObject))
               ELSE LET inner == CookieDotParse(headers, schema, depth - 1)
                    IN  WithEarlier(inner, safeParseAsync(schema, inner.value))
      ELSE IF cookieHeader.rep = "Headers"
      THEN LET headers == CookieHeader(cookieHeader)
           IN  IF Falsy(headers) THEN safeParseAsync(schema, VObject(EmptyObject))
               ELSE LET inner == CookieDotParse(headers, schema, depth - 1)
                    IN  WithEarlier(inner, safeParseAsync(schema, inner.value))
      ELSE IF Falsy(cookieHeader.header) THEN safeParseAsync(schema, VObject(EmptyObject))
      ELSE LET inner == CookieDotParse(cookieHeader.header, schema, depth - 1)
           IN  WithEarlier(inner, safeParseAsync(schema, inner.value)))

CookieParseWithDefault(cookieHeader, schema, defaultValue, depth) ==
    Entered(
      IF cookieHeader.rep = "Request"
      THEN LET headers == CookieHeader(cookieHeader)
           IN  IF Falsy(headers)
               THEN ThenDataOrDefault(safeParseAsync(schema, VObject(EmptyObject)),
                                      defaultValue)
               ELSE LET inner == CookieDotParse(headers, schema, depth - 1)
                    IN  WithEarlier(inner, ThenDataOrDefault(
                            safeParseAsync(schema, inner.value), defaultValue))
      ELSE IF cookieHeader.rep = "Headers"
      THEN LET headers == CookieHeader(cookieHeader)
           IN  IF Falsy(headers)
               THEN ThenDataOrDefault(safeParseAsync(schema, VObject(EmptyObject)),
                                      defaultValue)
               ELSE LET inner == CookieDotParse(headers, schema, depth - 1)
                    IN  WithEarlier(inner, ThenDataOrDefault(
                            safeParseAsync(schema, inner.value), defaultValue))
      ELSE IF Falsy(cookieHeader.header)
      THEN ThenDataOrDefault(safeParseAsync(schema, VObject(EmptyObject)), defaultValue)
      ELSE LET inner == CookieDotParse(cookieHeader.header, schema, depth - 1)
           IN  WithEarlier(inner, ThenDataOrDefault(
                   safeParseAsync(schema, inner.value), defaultValue)))

(***************************************************************************)
(* Inputs.                                                                 *)
(***************************************************************************)
JsonValues ==
    { VScalar(Str("1")), VScalar(Str("x")), VScalar(Str("true")),
      VObject(Obj1("a", Str("1"))), VObject(Obj1("a", Str("x"))),
      VObject(Obj2("a", Str("1"), "b", Str("x"))) }

PairSamples ==
    { <<>>,
      <<Pair("a", "1")>>,
      <<Pair("a", "x")>>,
      <<Pair("a", "1"), Pair("b", "x")>>,
      <<Pair("a", "1"), Pair("a", "x")>>,
      <<Pair("constructor", "1")>> }

BodyRequests ==
    { Request(ct, "json", j, <<>>, <<>>, NoCookie) : ct \in ContentTypes, j \in JsonValues }
    \cup { Request(ct, "form", Undefined, f, <<>>, NoCookie) : ct \in ContentTypes, f \in PairSamples }
    \cup { Request(ct, w, Undefined, <<>>, <<>>, NoCookie) : ct \in ContentTypes, w \in {"garbage", "empty"} }

QueryRequests == { Request(NoHeader, "empty", Undefined, <<>>, q, NoCookie) : q \in PairSamples }

CookieValues ==
    { NoCookie, [present |-> TRUE, text |-> ""], [present |-> TRUE, text |-> "a=1"],
      [present |-> TRUE, text |-> "a=x"] }

CookieRequests == { Request(NoHeader, "empty", Undefined, <<>>, <<>>, c) : c \in CookieValues }

ParamMaps == { VObject(EmptyObject), VObject(Obj1("a", Str("1"))), VObject(Obj1("a", Str("x"))) }

Defaults == { VScalar(Scalar("number", "0")), VScalar(Str("fallback")) }

\* the values a cookie is serialized from
SerializeValues ==
    { VScalar(Str("1")), VScalar(Str("x")), VObject(Obj1("a", Str("1"))),
      VObject(Obj1("a", Str("x"))) }

\* the files a file schema is run on: sizes around each unit's boundary
FileSizes ==
    { Num(0, 0), Num(0, 5), Num(0, 1023), Num(0, 1024), Num(0, 1025),
      Num(0, Radix - 1), Num(1, 0), Num(1, 1), Num(1024, 0), Num(1024, 1),
      Num(Radix, 0), Num(Radix, 1) }

Files ==
    { FileOf("image/png", size) : size \in FileSizes }
    \cup { FileOf("image/jpeg", Num(0, 1024)), FileOf("text/plain", Num(0, 5)) }

\* the values a file schema is run on
FileValues ==
    { VFile(file) : file \in Files }
    \cup { VScalar(Str(str)) : str \in {DataUri, PlainBase64, BadPayloadUri, NoHeaderUri} }
    \cup { VScalar(Scalar("number", "1")), VObject(EmptyObject), Undefined }
    \cup { VArray(<<>>),
           VArray(<<FileOf("image/png", Num(0, 5))>>),
           VArray(<<FileOf("image/png", Num(0, 5)), FileOf("image/jpeg", Num(0, 1024))>>),
           VArray(<<FileOf("image/png", Num(0, 5)), NotAFile>>),
           VArray(<<FileOf("image/png", Num(0, 5)), FileOf("image/png", Num(1, 0)),
                    FileOf("image/png", Num(0, 1023))>>) }

ZxSchemas == FileSchemaNames \cup FilesSchemaNames \cup Base64FileSchemaNames

\* the requests a bound action is invoked with
ActionRequests ==
    { r \in BodyRequests :
        /\ r.json \in {Undefined, VScalar(Str("x")), VObject(Obj2("a", Str("1"), "b", Str("x")))}
        /\ r.form \in {<<>>, <<Pair("a", "1"), Pair("b", "x")>>} }

\* a schema option of a binder: given, or left out
BinderSchemas == {"absent", "objectA", "stringBoolean"}

DefaultSchemaRejects(s) == IF s = "absent" THEN "stringBoolean" ELSE s

\* params = zod.unknown(), body = zod.unknown(), query = zod.unknown()
DefaultSchema(s) == IF s = "absent" THEN "unknown" ELSE s

\* what the wrapped handler does once called
Handlers == {"returns", "throws"}

HandlerResult == VScalar(Str("handled"))

NoCall ==
    [op |-> "none", request |-> NoRequest, isSearchParams |-> FALSE, headers |-> <<>>,
     params |-> Undefined, cookieRep |-> "none", schema |-> "none",
     paramsSchema |-> "none", defaultValue |-> Undefined, handler |-> "none",
     context |-> "none"]

NoCodecCalls == [parse |-> 0, serialize |-> 0]

NoHandlerArgs ==
    [keys |-> {}, request |-> NoRequest, params |-> Undefined, context |-> "none",
     parsedParams |-> Undefined, parsedBody |-> Undefined, parsedQuery |-> Undefined]

(***************************************************************************)
(* Actions.                                                                *)
(***************************************************************************)
\* no call is in flight and the last one's result has been taken
Idle == pc = "idle" /\ call.op = "none" /\ foldKind = "none"

\* a call that runs to its end in one step
Settle(c, ran) ==
    /\ call' = c
    /\ outcome' = ran.out
    /\ given' = ran.given
    /\ reads' = ran.reads
    /\ codecCalls' = [parse |-> ran.decodes, serialize |-> 0]
    /\ entries' = ran.entries
    /\ pc' = "idle"
    /\ parsedParams' = Undefined
    /\ parsedInput' = Undefined
    /\ handlerArgs' = NoHandlerArgs
    /\ handlerCalls' = 0
    /\ UNCHANGED <<badRequestMessage, customBadRequestJson, foldKind, pairs, data>>

BodyCall(op, request, schema, defaultValue) ==
    [NoCall EXCEPT !.op = op, !.request = request, !.schema = schema,
                   !.defaultValue = defaultValue]

CallParseJson ==
    /\ Idle
    /\ \E request \in BodyRequests, schema \in Schemas :
         Settle(BodyCall("parseJson", request, schema, Undefined), parseJson(request, schema))

CallParseJsonSafe ==
    /\ Idle
    /\ \E request \in BodyRequests, schema \in Schemas :
         Settle(BodyCall("parseJsonSafe", request, schema, Undefined),
                parseJsonSafe(request, schema))

CallParseJsonWithDefault ==
    /\ Idle
    /\ \E request \in BodyRequests, schema \in Schemas, d \in Defaults :
         Settle(BodyCall("parseJsonWithDefault", request, schema, d),
                parseJsonWithDefault(request, schema, d))

CallParseForm ==
    /\ Idle
    /\ \E request \in BodyRequests, schema \in Schemas :
         Settle(BodyCall("parseForm", request, schema, Undefined), parseForm(request, schema))

CallParseFormSafe ==
    /\ Idle
    /\ \E request \in BodyRequests, schema \in Schemas :
         Settle(BodyCall("parseFormSafe", request, schema, Undefined),
                parseFormSafe(request, schema))

CallParseFormWithDefault ==
    /\ Idle
    /\ \E request \in BodyRequests, schema \in Schemas, d \in Defaults :
         Settle(BodyCall("parseFormWithDefault", request, schema, d),
                parseFormWithDefault(request, schema, d))

CallParseBody ==
    /\ Idle
    /\ \E request \in BodyRequests, schema \in Schemas :
         Settle(BodyCall("parseBody", request, schema, Undefined), parseBody(request, schema))

CallParseBodySafe ==
    /\ Idle
    /\ \E request \in BodyRequests, schema \in Schemas :
         Settle(BodyCall("parseBodySafe", request, schema, Undefined),
                parseBodySafe(request, schema))

CallParseBodyWithDefault ==
    /\ Idle
    /\ \E request \in BodyRequests, schema \in Schemas, d \in Defaults :
         Settle(BodyCall("parseBodyWithDefault", request, schema, d),
                parseBodyWithDefault(request, schema, d))

ParamsCall(op, params, schema, defaultValue) ==
    [NoCall EXCEPT !.op = op, !.params = params, !.schema = schema,
                   !.defaultValue = defaultValue]

CallParseParams ==
    /\ Idle
    /\ \E params \in ParamMaps, schema \in Schemas :
         Settle(ParamsCall("parseParams", params, schema, Undefined),
                parseParams(params, schema))

CallParseParamsSafe ==
    /\ Idle
    /\ \E params \in ParamMaps, schema \in Schemas :
         Settle(ParamsCall("parseParamsSafe", params, schema, Undefined),
                parseParamsSafe(params, schema))

CallParseParamsWithDefault ==
    /\ Idle
    /\ \E params \in ParamMaps, schema \in Schemas, d \in Defaults :
         Settle(ParamsCall("parseParamsWithDefault", params, schema, d),
                parseParamsWithDefault(params, schema, d))

QueryCall(op, request, isSearchParams, schema, defaultValue) ==
    [NoCall EXCEPT !.op = op, !.request = request, !.isSearchParams = isSearchParams,
                   !.schema = schema, !.defaultValue = defaultValue]

CallParseQuery ==
    /\ Idle
    /\ \E request \in QueryRequests, usp \in BOOLEAN, schema \in Schemas :
         Settle(QueryCall("parseQuery", request, usp, schema, Undefined),
                parseQuery(request, usp, schema))

CallParseQuerySafe ==
    /\ Idle
    /\ \E request \in QueryRequests, usp \in BOOLEAN, schema \in Schemas :
         Settle(QueryCall("parseQuerySafe", request, usp, schema, Undefined),
                parseQuerySafe(request, usp, schema))

CallParseQueryWithDefault ==
    /\ Idle
    /\ \E request \in QueryRequests, usp \in BOOLEAN, schema \in Schemas, d \in Defaults :
         Settle(QueryCall("parseQueryWithDefault", request, usp, schema, d),
                parseQueryWithDefault(request, usp, schema, d))

HeadersCall(op, headers, schema, defaultValue) ==
    [NoCall EXCEPT !.op = op, !.headers = headers, !.schema = schema,
                   !.defaultValue = defaultValue]

CallParseHeaders ==
    /\ Idle
    /\ \E headers \in PairSamples, schema \in Schemas :
         Settle(HeadersCall("parseHeaders", headers, schema, Undefined),
                parseHeaders(headers, schema))

CallParseHeadersSafe ==
    /\ Idle
    /\ \E headers \in PairSamples, schema \in Schemas :
         Settle(HeadersCall("parseHeadersSafe", headers, schema, Undefined),
                parseHeadersSafe(headers, schema))

CallParseHeadersWithDefault ==
    /\ Idle
    /\ \E headers \in PairSamples, schema \in Schemas, d \in Defaults :
         Settle(HeadersCall("parseHeadersWithDefault", headers, schema, d),
                parseHeadersWithDefault(headers, schema, d))

\* rep: the argument is the header string (or null), a Request or a Headers
CookieCall(op, rep, request, schema, defaultValue) ==
    [NoCall EXCEPT !.op = op, !.cookieRep = rep, !.request = request, !.schema = schema,
                   !.defaultValue = defaultValue]

CookieReps == {"string", "Request", "Headers"}

CallCookieParse ==
    /\ Idle
    /\ \E request \in CookieRequests, rep \in CookieReps, schema \in Schemas :
         Settle(CookieCall("cookie.parse", rep, request, schema, Undefined),
                CookieParse(CookieArg(rep, request.cookie), schema, StackLimit))

CallCookieParseSafe ==
    /\ Idle
    /\ \E request \in CookieRequests, rep \in CookieReps, schema \in Schemas :
         Settle(CookieCall("cookie.parseSafe", rep, request, schema, Undefined),
                CookieParseSafe(CookieArg(rep, request.cookie), schema, StackLimit))

CallCookieParseWithDefault ==
    /\ Idle
    /\ \E request \in CookieRequests, rep \in CookieReps, schema \in Schemas, d \in Defaults :
         Settle(CookieCall("cookie.parseWithDefault", rep, request, schema, d),
                CookieParseWithDefault(CookieArg(rep, request.cookie), schema, d, StackLimit))

(***************************************************************************)
(* The wrapper's serialize and serializeWithDefault, one step per entry of *)
(* a wrapper method: the awaited validation, then cookie.serialize(...).   *)
(***************************************************************************)
SerializeCall(op, value, schema, defaultValue) ==
    [NoCall EXCEPT !.op = op, !.params = value, !.schema = schema,
                   !.defaultValue = defaultValue]

\* a wrapper method is called with value
EnterSerialize(c, at, value) ==
    /\ call' = c
    /\ pc' = at
    /\ parsedInput' = value
    /\ entries' = 1
    /\ outcome' = NoOutcome
    /\ given' = <<>>
    /\ reads' = 0
    /\ codecCalls' = NoCodecCalls
    /\ parsedParams' = Undefined
    /\ handlerArgs' = NoHandlerArgs
    /\ handlerCalls' = 0
    /\ UNCHANGED <<badRequestMessage, customBadRequestJson, foldKind, pairs, data>>

CallCookieSerialize ==
    /\ Idle
    /\ \E value \in SerializeValues, schema \in Schemas :
         EnterSerialize(SerializeCall("cookie.serialize", value, schema, Undefined),
                        "serialize", value)

CallCookieSerializeWithDefault ==
    /\ Idle
    /\ \E value \in SerializeValues, schema \in Schemas, d \in Defaults :
         EnterSerialize(SerializeCall("cookie.serializeWithDefault", value, schema, d),
                        "serializeWithDefault", value)

\* the expression cookie.serialize(v), reached after the awaited validation
CookieDotSerialize(v) ==
    IF CookieMethods.serialize = "zod"
    THEN /\ entries < MaxEntries
         /\ entries' = entries + 1
         /\ parsedInput' = v
         /\ pc' = "serialize"
         /\ UNCHANGED <<outcome, codecCalls>>
    ELSE /\ codecCalls' = [codecCalls EXCEPT !.serialize = @ + 1]
         /\ outcome' = Return(CodecSerialize(v))
         /\ pc' = "idle"
         /\ UNCHANGED <<entries, parsedInput>>

\* return await cookie.serialize(await schema.parseAsync(value))
CookieSerialize ==
    /\ pc = "serialize"
    /\ LET ran == parseAsync(call.schema, parsedInput)
       IN  /\ given' = given \o ran.given
           /\ IF ran.out.kind = "throw"
              THEN /\ outcome' = ran.out
                   /\ pc' = "idle"
                   /\ UNCHANGED <<entries, parsedInput, codecCalls>>
              ELSE CookieDotSerialize(ran.out.data)
    /\ UNCHANGED <<call, reads, parsedParams, handlerArgs, handlerCalls,
                   badRequestMessage, customBadRequestJson, foldKind, pairs, data>>

\* return await cookie.serialize(await schema.safeParseAsync(value).then(...))
CookieSerializeWithDefault ==
    /\ pc = "serializeWithDefault"
    /\ LET ran == ThenDataOrDefault(safeParseAsync(call.schema, parsedInput),
                                    call.defaultValue)
       IN  /\ given' = given \o ran.given
           /\ IF ran.out.kind = "throw"
              THEN /\ outcome' = ran.out
                   /\ pc' = "idle"
                   /\ UNCHANGED <<entries, parsedInput, codecCalls>>
              ELSE CookieDotSerialize(ran.out.data)
    /\ UNCHANGED <<call, reads, parsedParams, handlerArgs, handlerCalls,
                   badRequestMessage, customBadRequestJson, foldKind, pairs, data>>

(***************************************************************************)
(* A value validated by a file schema in each of the three shapes: what    *)
(* every entry point does with the value it has extracted.                 *)
(***************************************************************************)
FileCall(op, value, schema, defaultValue) ==
    [NoCall EXCEPT !.op = op, !.params = value, !.schema = schema,
                   !.defaultValue = defaultValue]

\* return await parseOrThrow(schema, value)
ValidateFileOrThrow ==
    /\ Idle
    /\ \E value \in FileValues, schema \in ZxSchemas :
         Settle(FileCall("zx.parse", value, schema, Undefined),
                ParseOrThrowOf(ValidateZx(schema, value), value))

\* return await schema.safeParseAsync(value)
ValidateFileSafe ==
    /\ Idle
    /\ \E value \in FileValues, schema \in ZxSchemas :
         Settle(FileCall("zx.parseSafe", value, schema, Undefined),
                SafeParseAsyncOf(ValidateZx(schema, value), value))

\* return await schema.safeParseAsync(value).then(...)
ValidateFileWithDefault ==
    /\ Idle
    /\ \E value \in FileValues, schema \in ZxSchemas, d \in Defaults :
         Settle(FileCall("zx.parseWithDefault", value, schema, d),
                ThenDataOrDefault(SafeParseAsyncOf(ValidateZx(schema, value), value), d))

(***************************************************************************)
(* zodAction and zodLoader: the returned async function, one step per      *)
(* awaited expression of the object literal, then the handler call.        *)
(***************************************************************************)
BinderCall(op, request, params, paramsSchema, schema, handler) ==
    [NoCall EXCEPT !.op = op, !.request = request, !.params = params,
                   !.paramsSchema = paramsSchema, !.schema = schema,
                   !.handler = handler, !.context = "context"]

Invoke(c) ==
    /\ call' = c
    /\ pc' = "params"
    /\ outcome' = NoOutcome
    /\ given' = <<>>
    /\ reads' = 0
    /\ codecCalls' = NoCodecCalls
    /\ entries' = 0
    /\ parsedParams' = Undefined
    /\ parsedInput' = Undefined
    /\ handlerArgs' = NoHandlerArgs
    /\ handlerCalls' = 0
    /\ UNCHANGED <<badRequestMessage, customBadRequestJson, foldKind, pairs, data>>

InvokeAction ==
    /\ Idle
    /\ \E request \in ActionRequests, params \in ParamMaps,
          ps \in BinderSchemas, bs \in BinderSchemas, h \in Handlers :
         Invoke(BinderCall("zodAction", request, params, ps, bs, h))

InvokeLoader ==
    /\ Idle
    /\ \E request \in QueryRequests, params \in ParamMaps,
          ps \in BinderSchemas, qs \in BinderSchemas, h \in Handlers :
         Invoke(BinderCall("zodLoader", request, params, ps, qs, h))

AwaitedContinues(ran, next) ==
    /\ given' = given \o ran.given
    /\ reads' = reads + ran.reads
    /\ outcome' = outcome
    /\ pc' = next
    /\ UNCHANGED <<call, handlerArgs, handlerCalls, codecCalls, entries,
                   badRequestMessage, customBadRequestJson, foldKind, pairs, data>>

\* an awaited parse inside the object literal: a rejection ends the invocation
Awaited(ran, next) ==
    /\ given' = given \o ran.given
    /\ reads' = reads + ran.reads
    /\ IF ran.out.kind = "throw"
       THEN /\ outcome' = ran.out
            /\ pc' = "idle"
       ELSE /\ outcome' = outcome
            /\ pc' = next
    /\ UNCHANGED <<call, handlerArgs, handlerCalls, codecCalls, entries,
                   badRequestMessage, customBadRequestJson, foldKind, pairs, data>>

\* parsedParams: await parseParams(args.params, params)
ActionParams ==
    /\ pc = "params" /\ call.op = "zodAction"
    /\ LET ran == parseParams(call.params, DefaultSchema(call.paramsSchema))
       IN  /\ Awaited(ran, "body")
           /\ parsedParams' = ran.out.data
           /\ parsedInput' = parsedInput

\* parsedBody: await parseBody(args.request, body)
ActionBody ==
    /\ pc = "body" /\ call.op = "zodAction"
    /\ LET ran == parseBody(call.request, DefaultSchema(call.schema))
       IN  /\ Awaited(ran, "handler")
           /\ parsedInput' = ran.out.data
           /\ parsedParams' = parsedParams

\* the value of the wrapped function's promise
HandlerOutcome(h) == IF h = "returns" THEN Return(HandlerResult) ELSE Throw("HandlerError")

ActionArgsWithoutSpread(c, pp, pb) ==
    [keys |-> {"parsedParams", "parsedBody"},
     request |-> NoRequest, params |-> Undefined, context |-> "none",
     parsedParams |-> pp, parsedBody |-> pb, parsedQuery |-> Undefined]

\* {...args, parsedParams, parsedBody}
ActionArgs(c, pp, pb) ==
    [keys |-> {"request", "params", "context", "parsedParams", "parsedBody"},
     request |-> c.request, params |-> c.params, context |-> c.context,
     parsedParams |-> pp, parsedBody |-> pb, parsedQuery |-> Undefined]

\* {...args, parsedParams, parsedQuery}
LoaderArgs(c, pp, pq) ==
    [keys |-> {"request", "params", "context", "parsedParams", "parsedQuery"},
     request |-> c.request, params |-> c.params, context |-> c.context,
     parsedParams |-> pp, parsedBody |-> Undefined, parsedQuery |-> pq]

\* return action({...})
ActionHandler ==
    /\ pc = "handler" /\ call.op = "zodAction"
    /\ handlerArgs' = ActionArgs(call, parsedParams, parsedInput)
    /\ handlerCalls' = handlerCalls + 1
    /\ outcome' = HandlerOutcome(call.handler)
    /\ pc' = "idle"
    /\ UNCHANGED <<call, parsedParams, parsedInput, given, reads, codecCalls, entries,
                   badRequestMessage, customBadRequestJson, foldKind, pairs, data>>

LoaderParams ==
    /\ pc = "params" /\ call.op = "zodLoader"
    /\ LET ran == parseParams(call.params, DefaultSchema(call.paramsSchema))
       IN  /\ Awaited(ran, "query")
           /\ parsedParams' = ran.out.data
           /\ parsedInput' = parsedInput

\* parsedQuery: await parseQuery(args.request, query)
LoaderQuery ==
    /\ pc = "query" /\ call.op = "zodLoader"
    /\ LET ran == parseQuery(call.request, FALSE, DefaultSchema(call.schema))
       IN  /\ Awaited(ran, "handler")
           /\ parsedInput' = ran.out.data
           /\ parsedParams' = parsedParams

\* return loader({...})
LoaderHandler ==
    /\ pc = "handler" /\ call.op = "zodLoader"
    /\ handlerArgs' = LoaderArgs(call, parsedParams, parsedInput)
    /\ handlerCalls' = handlerCalls + 1
    /\ outcome' = HandlerOutcome(call.handler)
    /\ pc' = "idle"
    /\ UNCHANGED <<call, parsedParams, parsedInput, given, reads, codecCalls, entries,
                   badRequestMessage, customBadRequestJson, foldKind, pairs, data>>

(***************************************************************************)
(* The application reassigns the exported settings.  A settled call's      *)
(* record is dropped with the assignment: what remains in `outcome` was    *)
(* always produced under the settings of the current state.                *)
(***************************************************************************)
Forget ==
    IF pc = "idle"
    THEN /\ call' = NoCall
         /\ outcome' = NoOutcome
         /\ given' = <<>>
         /\ reads' = 0
         /\ codecCalls' = NoCodecCalls
         /\ entries' = 0
         /\ parsedParams' = Undefined
         /\ parsedInput' = Undefined
         /\ handlerArgs' = NoHandlerArgs
         /\ handlerCalls' = 0
         /\ pc' = pc
    ELSE UNCHANGED callVars

\* the caller takes the settled call's result
Release ==
    /\ pc = "idle" /\ call.op # "none"
    /\ Forget
    /\ UNCHANGED <<badRequestMessage, customBadRequestJson, foldKind, pairs, data>>

SetBadRequestMessage ==
    /\ foldKind = "none"
    /\ \E m \in Messages \ {badRequestMessage} : badRequestMessage' = m
    /\ Forget
    /\ UNCHANGED <<customBadRequestJson, foldKind, pairs, data>>

SetCustomBadRequestJson ==
    /\ foldKind = "none"
    /\ \E f \in Formatters \ {customBadRequestJson} : customBadRequestJson' = f
    /\ Forget
    /\ UNCHANGED <<badRequestMessage, foldKind, pairs, data>>

(***************************************************************************)
(* The folds, one forEach callback per step.                               *)
(***************************************************************************)
FormStep ==
    /\ foldKind = "form" /\ Len(pairs) < MaxPairs
    /\ \E key \in Keys, value \in FieldValues :
         /\ pairs' = Append(pairs, Pair(key, value))
         /\ data' = FormCallback(data, value, key)
    /\ UNCHANGED <<foldKind, badRequestMessage, customBadRequestJson, callVars>>

SearchStep ==
    /\ foldKind = "search" /\ Len(pairs) < MaxPairs
    /\ \E key \in Keys, value \in FieldValues :
         /\ pairs' = Append(pairs, Pair(key, value))
         /\ data' = SearchCallback(data, value, key)
    /\ UNCHANGED <<foldKind, badRequestMessage, customBadRequestJson, callVars>>

HeadersStep ==
    /\ foldKind = "headers" /\ Len(pairs) < MaxPairs
    /\ \E key \in Keys, value \in FieldValues :
         /\ pairs' = Append(pairs, Pair(key, value))
         /\ data' = HeadersCallback(data, value, key)
    /\ UNCHANGED <<foldKind, badRequestMessage, customBadRequestJson, callVars>>

(***************************************************************************)
(* Specifications.                                                         *)
(***************************************************************************)
InitSettings ==
    /\ badRequestMessage = DefaultMessage
    /\ customBadRequestJson = "identity"
    /\ call = NoCall
    /\ pc = "idle"
    /\ parsedParams = Undefined
    /\ parsedInput = Undefined
    /\ handlerArgs = NoHandlerArgs
    /\ handlerCalls = 0
    /\ given = <<>>
    /\ reads = 0
    /\ outcome = NoOutcome
    /\ codecCalls = NoCodecCalls
    /\ entries = 0

Init ==
    /\ InitSettings
    /\ foldKind = "none"
    /\ pairs = <<>>
    /\ data = EmptyObject

Next ==
    \/ CallParseJson \/ CallParseJsonSafe \/ CallParseJsonWithDefault
    \/ CallParseForm \/ CallParseFormSafe \/ CallParseFormWithDefault
    \/ CallParseBody \/ CallParseBodySafe \/ CallParseBodyWithDefault
    \/ CallParseParams \/ CallParseParamsSafe \/ CallParseParamsWithDefault
    \/ CallParseQuery \/ CallParseQuerySafe \/ CallParseQueryWithDefault
    \/ CallParseHeaders \/ CallParseHeadersSafe \/ CallParseHeadersWithDefault
    \/ CallCookieParse \/ CallCookieParseSafe \/ CallCookieParseWithDefault
    \/ ValidateFileOrThrow \/ ValidateFileSafe \/ ValidateFileWithDefault
    \/ CallCookieSerialize \/ CookieSerialize
    \/ CallCookieSerializeWithDefault \/ CookieSerializeWithDefault
    \/ InvokeAction \/ ActionParams \/ ActionBody \/ ActionHandler
    \/ InvokeLoader \/ LoaderParams \/ LoaderQuery \/ LoaderHandler
    \/ Release \/ SetBadRequestMessage \/ SetCustomBadRequestJson

Spec == Init /\ [][Next]_vars

FoldInit ==
    /\ InitSettings
    /\ foldKind \in {"form", "search", "headers"}
    /\ pairs = <<>>
    /\ data = EmptyObject

FoldNext == FormStep \/ SearchStep \/ HeadersStep

FoldSpec == FoldInit /\ [][FoldNext]_vars

(***************************************************************************)
(* Properties.                                                             *)
(***************************************************************************)
\* a call has run to its end and its result has not been taken yet
Settled == pc = "idle" /\ call.op # "none"

\* the schema was run, and the value it was last handed is one it rejects
Rejected(schema) ==
    given # <<>> /\ Validate(schema, given[Len(given)]).kind = "invalid"

\* the schema was run, and the value it was last handed is one it accepts
Accepted(schema) ==
    given # <<>> /\ Validate(schema, given[Len(given)]).kind = "valid"

ThrowingOps ==
    {"parseJson", "parseForm", "parseBody", "parseParams", "parseQuery", "parseHeaders"}

SafeOps ==
    {"parseJsonSafe", "parseFormSafe", "parseBodySafe", "parseParamsSafe",
     "parseQuerySafe", "parseHeadersSafe", "cookie.parseSafe"}

WithDefaultOps ==
    {"parseJsonWithDefault", "parseFormWithDefault", "parseBodyWithDefault",
     "parseParamsWithDefault", "parseQueryWithDefault", "parseHeadersWithDefault",
     "cookie.parseWithDefault"}

UnchangedSettings == badRequestMessage = "Bad Request" /\ customBadRequestJson = "identity"

\* the 400 response of the initial settings: the message is its JSON body and its status text
DefaultBadRequest ==
    [status |-> 400, statusText |-> "Bad Request",
     body |-> [object |-> FALSE, message |-> "Bad Request"]]

\* C1: a throwing-shape entry point whose schema rejects the value settles by
\* throwing the 400 response, which under the initial settings has "Bad Request"
\* as body and status text; the ZodError is never what is thrown.
C1_RejectedThrowsBadRequest ==
    (Settled /\ call.op \in ThrowingOps /\ Rejected(call.schema))
        => /\ outcome.kind = "throw"
           /\ outcome.shape = "response"
           /\ outcome.error # "ZodError"
           /\ outcome.response.status = 400
           /\ UnchangedSettings => outcome.response = DefaultBadRequest

C1_Witness ==
    /\ Settled /\ call.op = "parseForm" /\ Rejected(call.schema)
    /\ call.schema = "objectA" /\ UnchangedSettings
    /\ outcome.response = DefaultBadRequest

\* C2: a safe-shape entry point whose schema rejects the value returns zod's
\* result tagged success = false with the error, and does not throw.
C2_RejectedReturnsFailure ==
    (Settled /\ call.op \in SafeOps /\ Rejected(call.schema))
        => /\ outcome.kind = "return"
           /\ outcome.shape = "result"
           /\ outcome.success = FALSE
           /\ outcome.error = "ZodError"

C2_Witness ==
    /\ Settled /\ call.op = "parseHeadersSafe" /\ Rejected(call.schema)
    /\ outcome.kind = "return" /\ ~outcome.success

\* C3: a with-default entry point returns the caller's default when the schema
\* rejects the value and the schema's output when it accepts it.
C3_DefaultOrValidated ==
    (Settled /\ call.op \in WithDefaultOps /\ given # <<>>)
        => /\ Rejected(call.schema) => outcome = Return(call.defaultValue)
           /\ Accepted(call.schema)
                => outcome = Return(Validate(call.schema, given[Len(given)]).value)

\* the content-type names neither JSON nor form data
OtherContentType(request) ==
    \A i \in 1..Len(request.contentType.tokens) :
        request.contentType.tokens[i] \notin {"application/json", "multipart/form-data"}

\* C4: for a request whose content-type is neither JSON nor form, parseBodySafe
\* returns a failure-tagged result and parseBodyWithDefault returns the default;
\* neither throws.
C4_OtherEncodingInShape ==
    (Settled /\ OtherContentType(call.request))
        => /\ call.op = "parseBodySafe"
                => outcome.kind = "return" /\ outcome.shape = "result" /\ ~outcome.success
           /\ call.op = "parseBodyWithDefault" => outcome = Return(call.defaultValue)

\* C5: the safe and with-default entry points for JSON and form bodies never
\* throw, whatever the request: safe returns a tagged result, with-default a value.
C5_BodySafeNeverThrows ==
    Settled =>
        /\ call.op \in {"parseJsonSafe", "parseFormSafe"}
             => outcome.kind = "return" /\ outcome.shape = "result"
        /\ call.op \in {"parseJsonWithDefault", "parseFormWithDefault"}
             => outcome.kind = "return" /\ outcome.shape = "value"

BinderOps == {"zodAction", "zodLoader"}

\* the schema of the i-th validation of a binder invocation: params, then body or query
BinderSchemaAt(i) ==
    IF i = 1
    THEN (IF call.paramsSchema = "absent" THEN "unknown" ELSE call.paramsSchema)
    ELSE (IF call.schema = "absent" THEN "unknown" ELSE call.schema)

\* one of the invocation's two validations was run on a value its schema rejects
ValidationFailed ==
    \E i \in 1..Len(given) : Validate(BinderSchemaAt(i), given[i]).kind = "invalid"

\* both validations were run, each on a value its schema accepts
BothValid ==
    /\ Len(given) = 2
    /\ \A i \in 1..2 : Validate(BinderSchemaAt(i), given[i]).kind = "valid"

\* C6: in an invocation of a bound action or loader in which the params schema or
\* the body/query schema rejects its value, or the action's request has a
\* content-type that is neither JSON nor form, the handler is never called and
\* the invocation ends by throwing the 400 response.
C6_FailedValidationSkipsHandler ==
    (/\ call.op \in BinderOps
     /\ \/ ValidationFailed
        \/ Settled /\ call.op = "zodAction" /\ OtherContentType(call.request))
        => /\ handlerCalls = 0
           /\ handlerArgs = NoHandlerArgs
           /\ pc = "idle"
           /\ outcome.kind = "throw"
           /\ outcome.shape = "response"
           /\ outcome.response.status = 400

C6_Witness ==
    /\ Settled /\ call.op = "zodAction" /\ call.handler = "returns"
    /\ Len(given) = 2 /\ call.schema = "objectA"
    /\ given[2] = VScalar(Str("x"))
    /\ handlerCalls = 0 /\ outcome.response.status = 400

\* the handler's own outcome, as the caller of the bound function sees it
HandlerSettles ==
    /\ call.handler = "returns" => outcome = Return(VScalar(Str("handled")))
    /\ call.handler = "throws" => outcome = Throw("HandlerError")

\* the state part of C7
C7_HandlerGetsValidated ==
    /\ handlerCalls <= 1
    /\ (Settled /\ call.op \in BinderOps /\ BothValid)
         => /\ handlerCalls = 1
            /\ {"request", "params", "context", "parsedParams"} \subseteq handlerArgs.keys
            /\ handlerArgs.request = call.request
            /\ handlerArgs.params = call.params
            /\ handlerArgs.context = call.context
            /\ handlerArgs.parsedParams = Validate(BinderSchemaAt(1), given[1]).value
            /\ (call.paramsSchema = "objectA" /\ call.params = VObject(Obj1("a", Str("1"))))
                 => handlerArgs.parsedParams = VObject(Obj1("a", Scalar("number", "1")))
            /\ call.op = "zodAction"
                 => /\ "parsedBody" \in handlerArgs.keys
                    /\ handlerArgs.parsedBody = Validate(BinderSchemaAt(2), given[2]).value
            /\ call.op = "zodLoader"
                 => /\ "parsedQuery" \in handlerArgs.keys
                    /\ handlerArgs.parsedQuery = Validate(BinderSchemaAt(2), given[2]).value
            /\ HandlerSettles

\* C7: when both validations succeed the handler is called exactly once, with the
\* original arguments plus parsedParams and parsedBody / parsedQuery set to the
\* schemas' outputs; the bound function settles as the handler does (its result,
\* or its error, unchanged); the arguments it was invoked with are never changed.
C7_HandlerCalledOnceUnchanged ==
    /\ []C7_HandlerGetsValidated
    /\ [][pc # "idle" => call' = call]_vars

C7_Witness ==
    /\ Settled /\ call.op = "zodAction" /\ BothValid /\ handlerCalls = 1
    /\ call.schema = "objectA" /\ call.paramsSchema = "objectA"
    /\ call.handler = "throws" /\ outcome.error = "HandlerError"
    /\ handlerArgs.parsedBody = VObject(Obj1("a", Scalar("number", "1")))
    /\ given[2] = VObject(Obj2("a", Str("1"), "b", Str("x")))

\* the content-type names JSON or form data and the body reads as what it names
ReadableBody(request) ==
    \/ /\ \E i \in 1..Len(request.contentType.tokens) :
              request.contentType.tokens[i] = "application/json"
       /\ request.wire = "json"
    \/ /\ \A i \in 1..Len(request.contentType.tokens) :
              request.contentType.tokens[i] # "application/json"
       /\ \E i \in 1..Len(request.contentType.tokens) :
              request.contentType.tokens[i] = "multipart/form-data"
       /\ request.wire = "form"

\* the body value parseBody hands on: the JSON value, or the folded form fields
BodyValue(request) ==
    IF request.wire = "json" THEN request.json ELSE VObject(formToObject(request.form))

\* C8 as stated: with no schemas the handler of a bound action is called for
\* every request, whatever its content-type or body.
C8_NoSchemaAlwaysInvokes ==
    (Settled /\ call.op = "zodAction" /\ call.paramsSchema = "absent"
     /\ call.schema = "absent")
        => handlerCalls = 1

\* C8 (amended): an omitted schema accepts every value it is handed.  A loader
\* bound with no schemas calls its handler for every request and every params
\* mapping; an action bound with no schemas calls its handler exactly for the
\* requests whose content-type names JSON or form data and whose body reads as
\* such, with parsedParams the params mapping and parsedBody the body value as
\* read; any other request ends in the thrown 400 response (unrecognised
\* content-type) or the body reader's error, the handler not called.  With one
\* schema omitted, the omitted one never rejects: the handler is called whenever
\* the other validation passes.
C8_OmittedSchemaAcceptsValue ==
    /\ (call.op \in BinderOps /\ call.paramsSchema = "absent" /\ pc # "params" /\ given # <<>>)
         => /\ given[1] = call.params
            /\ (pc # "idle" \/ handlerCalls = 1) => parsedParams = call.params
    /\ (Settled /\ call.op = "zodLoader" /\ call.paramsSchema = "absent"
        /\ call.schema = "absent")
         => /\ handlerCalls = 1
            /\ handlerArgs.parsedParams = call.params
            /\ handlerArgs.parsedQuery = VObject(searchParamsToObject(call.request.query))
    /\ (Settled /\ call.op = "zodAction" /\ call.paramsSchema = "absent"
        /\ call.schema = "absent")
         => /\ handlerCalls = 1 <=> ReadableBody(call.request)
            /\ handlerCalls = 1
                 => /\ handlerArgs.parsedParams = call.params
                    /\ handlerArgs.parsedBody = BodyValue(call.request)
            /\ OtherContentType(call.request)
                 => outcome.shape = "response" /\ outcome.response.status = 400
    /\ (Settled /\ call.op = "zodAction" /\ call.schema = "absent"
        /\ Len(given) >= 1 /\ Validate(BinderSchemaAt(1), given[1]).kind = "valid")
         => (handlerCalls = 1 <=> ReadableBody(call.request))
    /\ (Settled /\ call.op = "zodLoader" /\ call.schema = "absent"
        /\ Len(given) >= 1 /\ Validate(BinderSchemaAt(1), given[1]).kind = "valid")
         => handlerCalls = 1

C8_Witness ==
    /\ Settled /\ call.op = "zodAction" /\ call.paramsSchema = "absent"
    /\ call.schema = "absent" /\ handlerCalls = 1
    /\ call.request.wire = "form"
    /\ handlerArgs.parsedBody = VObject(Obj2("a", Str("1"), "b", Str("x")))
    /\ handlerArgs.parsedParams = VObject(Obj1("a", Str("x")))

\* C9: a bound action with no schemas, invoked with a request whose content-type
\* is neither application/json nor multipart/form-data, rejects with the 400
\* Response; the handler is not called, so its own error is not what is thrown.
C9_NoSchemaOtherTypeRejects ==
    (Settled /\ call.op = "zodAction" /\ call.paramsSchema = "absent"
     /\ call.schema = "absent" /\ OtherContentType(call.request))
        => /\ outcome.kind = "throw"
           /\ outcome.shape = "response"
           /\ outcome.error = "Response"
           /\ outcome.response.status = 400
           /\ handlerCalls = 0

\* the request of test/error.test.ts: no body, no content-type, a handler that throws
C9_Witness ==
    /\ Settled /\ call.op = "zodAction" /\ call.paramsSchema = "absent"
    /\ call.schema = "absent" /\ call.handler = "throws"
    /\ ~call.request.contentType.present /\ call.request.wire = "empty"
    /\ call.params = VObject(EmptyObject)
    /\ outcome.shape = "response" /\ outcome.response.status = 400

\* the values given for key in ps, in order
RECURSIVE ValuesOf(_, _)
ValuesOf(key, ps) ==
    IF ps = <<>> THEN <<>>
    ELSE IF Head(ps).key = key THEN <<Str(Head(ps).value)>> \o ValuesOf(key, Tail(ps))
    ELSE ValuesOf(key, Tail(ps))

\* the entry the fold is specified to hold for key after visiting ps
FoldedEntry(key, ps) ==
    LET occ == ValuesOf(key, ps)
    IN  IF Len(occ) = 0 THEN Absent
        ELSE IF Len(occ) = 1 THEN One(occ[1])
        ELSE Many(occ)

\* C10: after the fold has visited any pair sequence, every key that occurred
\* once maps to its value, every key that occurred n > 1 times maps to the
\* sequence of its n values in order, and a key that did not occur is absent.
C10_FoldKeepsEveryValue ==
    \A key \in Keys : data[key] = FoldedEntry(key, pairs)

\* what does hold: C10 for the keys that Object.prototype does not define
C10_OrdinaryKeys ==
    \A key \in Keys \ ObjectPrototypeKeys : data[key] = FoldedEntry(key, pairs)

\* the class the detector is specified to give a content-type header
EncodingClass(header) ==
    IF \E i \in 1..Len(header.tokens) : header.tokens[i] = "application/json" THEN "json"
    ELSE IF \E i \in 1..Len(header.tokens) : header.tokens[i] = "multipart/form-data"
         THEN "form"
    ELSE "text"

\* C11: the detector gives json when the content-type contains application/json
\* (exact case), otherwise form when it contains multipart/form-data, otherwise
\* text (an absent header included); charset and boundary parameters do not
\* change the class; parseBody reads a json body with the JSON reader and a form
\* body with the form reader, once, and reads nothing for text.
C11_DetectorClassifies ==
    (Settled /\ call.op = "parseBody")
        => LET request == call.request
               class == getBodyEncoding(request)
           IN  /\ class = EncodingClass(request.contentType)
               /\ request.contentType = Header(<<"application/json", "; charset=utf-8">>)
                    => class = "json"
               /\ request.contentType = Header(<<"multipart/form-data", "; boundary=xyz">>)
                    => class = "form"
               /\ request.contentType \in {NoHeader, Header(<<"text/plain">>),
                                            Header(<<"Application/JSON">>)}
                    => class = "text"
               /\ class = "json"
                    => /\ reads = 1
                       /\ request.wire = "json" => given = <<request.json>>
                       /\ request.wire # "json" => outcome = Throw("SyntaxError")
               /\ class = "form"
                    => /\ reads = 1
                       /\ request.wire = "form"
                            => given = <<VObject(formToObject(request.form))>>
                       /\ request.wire # "form" => outcome = Throw("TypeError")
               /\ class = "text"
                    => reads = 0 /\ given = <<>> /\ outcome.shape = "response"

C11_Witness ==
    /\ Settled /\ call.op = "parseBody"
    /\ call.request.contentType = Header(<<"multipart/form-data", "; boundary=xyz">>)
    /\ call.request.wire = "form" /\ call.schema = "objectA"
    /\ given = <<VObject(Obj2("a", Str("1"), "b", Str("x")))>>
    /\ outcome = Return(VObject(Obj1("a", Scalar("number", "1"))))

CookieParseOps == {"cookie.parse", "cookie.parseSafe", "cookie.parseWithDefault"}

\* the call's cookie header is missing: null, absent from the Request or Headers, or empty
MissingCookieHeader == ~call.request.cookie.present \/ call.request.cookie.text = ""

\* C12: cookie parse, parseSafe and parseWithDefault given a missing cookie header
\* (null or the empty string, a Request or a Headers without the header) apply the
\* schema once, to the empty mapping, without calling the codec's decode; the
\* outcome is the schema's outcome on the empty mapping in the method's shape,
\* whichever of the three representations the header came in.
C12_MissingHeaderIsEmptyMapping ==
    (Settled /\ call.op \in CookieParseOps /\ MissingCookieHeader)
        => LET r == Validate(call.schema, VObject(EmptyObject))
           IN  /\ given = <<VObject(EmptyObject)>>
               /\ codecCalls.parse = 0
               /\ entries = 1
               /\ outcome.error # "RangeError"
               /\ call.op = "cookie.parse"
                    => /\ r.kind = "valid" => outcome = Return(r.value)
                       /\ r.kind = "invalid" => outcome.kind = "throw"
               /\ call.op = "cookie.parseSafe" => outcome = SafeResult(r)
               /\ call.op = "cookie.parseWithDefault"
                    => /\ r.kind = "valid" => outcome = Return(r.value)
                       /\ r.kind = "invalid" => outcome = Return(call.defaultValue)

C12_Witness ==
    /\ Settled /\ call.op = "cookie.parseWithDefault" /\ call.cookieRep = "Request"
    /\ ~call.request.cookie.present /\ call.schema = "objectA"
    /\ given = <<VObject(EmptyObject)>>
    /\ outcome = Return(call.defaultValue)

\* C13: the throwing shape of the cookie wrapper (parse, serialize) settles by
\* throwing the 400 response when the schema rejects the decoded mapping or the
\* value to serialize; the schema's ZodError is neither returned nor thrown.
C13_CookieRejectionIsBadRequest ==
    (Settled /\ call.op \in {"cookie.parse", "cookie.serialize"} /\ Rejected(call.schema))
        => /\ outcome.kind = "throw"
           /\ outcome.shape = "response"
           /\ outcome.response.status = 400
           /\ outcome.error # "ZodError"

SerializeOps == {"cookie.serialize", "cookie.serializeWithDefault"}

\* C14: cookie serialize validates the value once and then encodes the validated
\* value with the codec's encode, which is called exactly once, and not at all
\* when the validation fails; serializeWithDefault encodes, exactly once, the
\* validated value or, when the validation fails, the caller's default.
C14_SerializeEncodesOnce ==
    call.op \in SerializeOps
        => LET r == Validate(call.schema, call.params)
           IN  /\ Len(given) <= 1
               /\ entries <= 1
               /\ codecCalls.serialize <= 1
               /\ (Settled /\ call.op = "cookie.serialize")
                    => /\ given = <<call.params>>
                       /\ r.kind = "valid"
                            => /\ codecCalls.serialize = 1
                               /\ outcome = Return(CodecSerialize(r.value))
                       /\ r.kind = "invalid"
                            => codecCalls.serialize = 0 /\ outcome.kind = "throw"
               /\ (Settled /\ call.op = "cookie.serializeWithDefault")
                    => /\ given = <<call.params>>
                       /\ codecCalls.serialize = 1
                       /\ r.kind = "valid" => outcome = Return(CodecSerialize(r.value))
                       /\ r.kind = "invalid"
                            => outcome = Return(CodecSerialize(call.defaultValue))

ZxOps == {"zx.parse", "zx.parseSafe", "zx.parseWithDefault"}

\* the file schema of the call reaches convertToBytes with a unit that is none of
\* B, KB, MB, GB, TB: the value is a file that passed the checks before the size
InvalidUnitTriggered ==
    /\ call.params.t = "file"
    /\ \/ call.schema \in {"file.minBadUnit", "file.maxBadUnit"}
       \/ call.schema = "file.pngMaxBadUnit" /\ call.params.f[1].type = "image/png"

\* C16: when a file schema reaches convertToBytes with an invalid unit while it
\* validates a value, the call ends in the invalid-unit error in every shape:
\* the throwing shape does not throw the 400 response instead, the safe shape does
\* not return a failure-tagged result, the with-default shape does not return
\* the default.
C16_InvalidUnitNotSuppressed ==
    (Settled /\ call.op \in ZxOps /\ InvalidUnitTriggered)
        => /\ outcome.kind = "throw"
           /\ outcome.shape = "error"
           /\ outcome.error = "Error"

\* value * 1024^k bytes, k = 0,1,2,3,4 for B,KB,MB,GB,TB
UnitExponent(unit) ==
    CASE unit = "B" -> 0 [] unit = "KB" -> 1 [] unit = "MB" -> 2
      [] unit = "GB" -> 3 [] unit = "TB" -> 4

BytesOf(size) ==
    LET k == UnitExponent(size.unit)
    IN  IF k >= 2 THEN Num(size.value * 1024 ^ (k - 2), 0)
        ELSE NumOf(size.value * 1024 ^ k)

\* the file schemas whose sizes are given in one of the five units
TypedFileSchemas ==
    FileSchemaNames \ {"file.minBadUnit", "file.maxBadUnit", "file.pngMaxBadUnit"}

\* the value is a file that meets the constraints given in options
MeetsConstraints(options, v) ==
    /\ v.t = "file"
    /\ options.mimetype.given => v.f[1].type \in options.mimetype.types
    /\ options.minimumSize.given => ~Less(v.f[1].size, BytesOf(options.minimumSize))
    /\ options.maximumSize.given => ~Less(BytesOf(options.maximumSize), v.f[1].size)

WithinFileCount(options, v) ==
    /\ options.minimumFiles.given => Len(v.f) >= options.minimumFiles.value
    /\ options.maximumFiles.given => Len(v.f) <= options.maximumFiles.value

\* C18: zx.files accepts a value exactly when it is a sequence, every element
\* passes the per-file check, and the number of elements is at least
\* minimumFiles (default 0) and at most maximumFiles (default unbounded).
C18_FilesBoundsEnforced ==
    (Settled /\ call.op = "zx.parseSafe"
     /\ call.schema \in FilesSchemaNames \ {"files.maxBadUnit"})
        => LET options == FilesOptionsNamed(call.schema)
               v == call.params
           IN  outcome.success
                 <=> /\ v.t = "array"
                     /\ \A i \in 1..Len(v.f) :
                            MeetsConstraints(options, VFile(v.f[i])) /\ v.f[i].isFile
                     /\ WithinFileCount(options, v)

\* what does hold: the per-file check on every element, the bounds left aside
C18_EveryElementChecked ==
    (Settled /\ call.op = "zx.parseSafe"
     /\ call.schema \in FilesSchemaNames \ {"files.maxBadUnit"})
        => LET options == FilesOptionsNamed(call.schema)
               v == call.params
           IN  outcome.success
                 <=> /\ v.t = "array"
                     /\ \A i \in 1..Len(v.f) :
                            MeetsConstraints(options, VFile(v.f[i])) /\ v.f[i].isFile

\* a payload zx.base64File cannot decode: neither a string nor a file, a string
\* with no data-URI header and comma, or a data URI whose payload is not base64
Malformed(v) ==
    \/ v.t \notin {"file", "scalar"}
    \/ v.t = "scalar" /\ v.s.t # "string"
    \/ v.t = "scalar" /\ v.s.t = "string" /\ v.s.s \in {PlainBase64, BadPayloadUri}

\* C19: a malformed payload given to zx.base64File is an ordinary validation
\* failure in each shape (the 400 response, a failure-tagged result, the
\* default), never another error; a file object is handed unchanged to the file
\* constraints.
C19_MalformedIsValidationFailure ==
    (Settled /\ call.op \in ZxOps /\ call.schema \in Base64FileSchemaNames)
        => /\ Malformed(call.params)
                => /\ call.op = "zx.parse" => outcome = throwBadRequest
                   /\ call.op = "zx.parseSafe"
                        => /\ outcome.kind = "return" /\ outcome.shape = "result"
                           /\ ~outcome.success
                   /\ call.op = "zx.parseWithDefault"
                        => outcome = Return(call.defaultValue)
           /\ (call.params.t = "file" /\ call.op = "zx.parseSafe")
                => outcome =
                     SafeResult(ZxFile(Base64FileOptionsNamed(call.schema), call.params))

\* what does hold: the throwing shape, the pass-through of a file, and the decoding
\* of a well-formed data URI into a file of the declared type
C19_ThrowingShapeAndPassThrough ==
    (Settled /\ call.op \in ZxOps /\ call.schema \in Base64FileSchemaNames)
        => /\ (Malformed(call.params) /\ call.op = "zx.parse") => outcome = throwBadRequest
           /\ (call.params.t = "file" /\ call.op = "zx.parseSafe")
                => outcome =
                     SafeResult(ZxFile(Base64FileOptionsNamed(call.schema), call.params))
           /\ (call.params = VScalar(Str(DataUri)) /\ call.op = "zx.parseSafe"
               /\ call.schema = "base64File.png")
                => outcome = SafeResult(Valid(VFile(FileOf("image/png", Num(0, 5)))))

\* C20: cookie parse, parseSafe and parseWithDefault of a non-empty cookie header
\* settle after calling the codec's decode once on the header, running the
\* schema once, on the decoded mapping, and entering the wrapper once; the
\* outcome is that validation's outcome in the method's shape.
C20_ParseDecodesOnce ==
    (Settled /\ call.op \in CookieParseOps /\ ~MissingCookieHeader)
        => LET decoded == CodecParse(call.request.cookie)
               r == Validate(call.schema, decoded)
           IN  /\ codecCalls.parse = 1
               /\ entries = 1
               /\ given = <<decoded>>
               /\ call.op = "cookie.parse"
                    => /\ r.kind = "valid" => outcome = Return(r.value)
                       /\ r.kind = "invalid" => outcome.kind = "throw"
               /\ call.op = "cookie.parseSafe" => outcome = SafeResult(r)
               /\ call.op = "cookie.parseWithDefault"
                    => /\ r.kind = "valid" => outcome = Return(r.value)
                       /\ r.kind = "invalid" => outcome = Return(call.defaultValue)

(***************************************************************************)
(* The query parsers called with a Request and with a URLSearchParams.     *)
(***************************************************************************)
QueryOps == {"parseQuery", "parseQuerySafe", "parseQueryWithDefault"}

\* the settled call's entry point run on its Request (usp FALSE) or on the
\* URLSearchParams of that request's URL (usp TRUE)
QueryRan(usp) ==
    CASE call.op = "parseQuery" -> parseQuery(call.request, usp, call.schema)
      [] call.op = "parseQuerySafe" -> parseQuerySafe(call.request, usp, call.schema)
      [] call.op = "parseQueryWithDefault" ->
            parseQueryWithDefault(call.request, usp, call.schema, call.defaultValue)

\* C21: whichever way a query parser is called, with the Request or with the
\* URLSearchParams of that request's URL, the one value handed to the schema is
\* the folded mapping of the query string, and the outcome is the outcome of
\* the call made with the Request.
C21_QueryHandsFoldedMapping ==
    (Settled /\ call.op \in QueryOps)
        => /\ given = <<VObject(searchParamsToObject(call.request.query))>>
           /\ outcome = QueryRan(FALSE).out

\* what does hold: called with the Request, the schema is handed the folded
\* mapping; called with a URLSearchParams, it is handed that object itself
C21_RequestFormFolds ==
    (Settled /\ call.op \in QueryOps)
        => /\ ~call.isSearchParams
                => given = <<VObject(searchParamsToObject(call.request.query))>>
           /\ call.isSearchParams => given = <<VSearchParams(call.request.query)>>
           /\ outcome = QueryRan(call.isSearchParams).out

(***************************************************************************)
(* The order of the steps of a bound action or loader.                     *)
(***************************************************************************)
\* the params schema was run and rejected the path parameters
ParamsRejected ==
    Len(given) >= 1 /\ Validate(BinderSchemaAt(1), given[1]).kind = "invalid"

\* the params schema was run on the invocation's path parameters and accepted them
ParamsAccepted ==
    /\ Len(given) >= 1
    /\ given[1] = call.params
    /\ Validate(BinderSchemaAt(1), given[1]).kind = "valid"

C22_OrderInState ==
    call.op \in BinderOps
        => /\ reads <= 1
           /\ pc = "params" => given = <<>> /\ reads = 0
           /\ (reads > 0 \/ Len(given) >= 2 \/ pc \in {"body", "query", "handler"})
                => ParamsAccepted
           /\ ParamsRejected => reads = 0 /\ Len(given) = 1 /\ pc = "idle"
           /\ handlerCalls > 0 => pc = "idle"

C22_OrderInStep ==
    (call.op \in BinderOps /\ call' = call /\ pc # "idle")
        => /\ reads' # reads
                => /\ pc = "body" /\ reads = 0 /\ reads' = 1
                   /\ handlerCalls = 0 /\ handlerCalls' = 0
                   /\ ParamsAccepted
           /\ Len(given') > Len(given)
                => \/ pc = "params" /\ given = <<>>
                   \/ pc \in {"body", "query"} /\ ParamsAccepted
           /\ handlerCalls' # handlerCalls => reads' = reads /\ given' = given

\* C22: in an invocation of a bound action or loader the params schema has
\* accepted the path parameters before the body is read or the body/query
\* schema is run; when the params schema rejects them the body is never read;
\* the body is read at most once, and never once the handler has been called.
C22_ParamsFirstBodyOnce ==
    /\ []C22_OrderInState
    /\ [][C22_OrderInStep]_vars

C22_Witness ==
    /\ Settled /\ call.op = "zodAction" /\ call.paramsSchema = "objectA"
    /\ ParamsAccepted /\ Len(given) = 2 /\ reads = 1 /\ handlerCalls = 1

====
